---- MODULE Spec2Model ----
(***************************************************************************)
(* A model of stellarmesh.py: the Mesh context manager around the gmsh     *)
(* toolkit and MOABModel.make_from_mesh, which builds the DAGMC entity     *)
(* graph (volumes, groups, surfaces, sense tags, file set) in a pymoab     *)
(* core from the volume/surface adjacency of a gmsh model.                 *)
(*                                                                         *)
(* The pymoab core is the record `core`: the meshsets and the mesh         *)
(* elements it holds, one function per tag (entity handle -> value), the   *)
(* contents of every meshset and the parent/child links.  The gmsh model   *)
(* is the input `mesh`: one adjacency list of surface tags per volume, in  *)
(* the order gmsh.model.get_entities(3) enumerates the volumes.            *)
(***************************************************************************)
EXTENDS Integers, Sequences, FiniteSets, TLC

\* Bounds of the model.
MaxVolumes == 3
MaxSurfaceTag == 2
MaxAdjacencies == 3
MaxFacets == 1
MaxOpenContexts == 2
MaxSubprocessRuns == 1
IdSpace == 16

Materials == {"steel", "vacuum"}

\* make_watertight: Union[bool, str]
MakeWatertightArgs == {"False", "True", "bin/make_watertight"}

VARIABLES
    mesh,             \* the gmsh model: mesh[k] = surface tags adjacent to the k-th volume
    material_names,   \* parameter of make_from_mesh
    make_watertight,  \* parameter of make_from_mesh
    pc,               \* position in make_from_mesh
    core,             \* the pymoab core being built
    known_surfaces,   \* surface tag -> MOABSurface
    i,                \* enumerate index of the volume being processed (0-based)
    j,                \* position in surface_tags of the next surface (1-based)
    volume_set_handle,
    gmsh_initialized, \* gmsh.is_initialized()
    open_contexts,    \* Mesh contexts entered and not yet exited
    stl_log,          \* one <<surface tag, meshset handle>> per gmsh.write/core.load_file of a patch
    written,          \* MOABModel.write has written the database to a file
    subprocess_runs   \* calls of subprocess.run made by _make_watertight

vars == <<mesh, material_names, make_watertight, pc, core, known_surfaces, i, j,
          volume_set_handle, gmsh_initialized, open_contexts, stl_log, written,
          subprocess_runs>>

----------------------------------------------------------------------------
\* Inputs

Injective(s) == \A a, b \in DOMAIN s : s[a] = s[b] => a = b

\* The lists gmsh.model.get_adjacencies(3, tag)[1] can return: each bounding
\* surface of the volume once.
AdjacencyLists ==
    {s \in UNION {[1..n -> 1..MaxSurfaceTag] : n \in 0..MaxSurfaceTag} : Injective(s)}

RECURSIVE TotalLen(_)
TotalLen(m) == IF m = <<>> THEN 0 ELSE Len(Head(m)) + TotalLen(Tail(m))

Meshes ==
    {m \in UNION {[1..n -> AdjacencyLists] : n \in 0..MaxVolumes} :
        TotalLen(m) <= MaxAdjacencies}

\* The material name lists: any length up to MaxVolumes, the names repeating
\* with period two (a, b, a, ...), a = b included.  make_from_mesh copies the
\* names into tags and never compares them.
MaterialLists ==
    {[k \in 1..n |-> IF k % 2 = 1 THEN a ELSE b] :
        n \in 0..MaxVolumes, a \in Materials, b \in Materials}

----------------------------------------------------------------------------
\* The pymoab core

\* Entity handles carry the entity type above the id, as MOAB's do
\* (MBTRI = 2, MBENTITYSET = 11); 0 is no entity.
TriHandle(id) == 2 * IdSpace + id
MeshsetHandle(id) == 11 * IdSpace + id

EmptyFn == [x \in {} |-> 0]

NewCore ==
    [sets |-> {}, elems |-> {},
     category |-> EmptyFn, geom_dimension |-> EmptyFn, global_id |-> EmptyFn,
     name |-> EmptyFn, surf_sense |-> EmptyFn, faceting_tol |-> EmptyFn,
     members |-> EmptyFn, children |-> EmptyFn]

\* The handle the next core.create_meshset() returns.
NextMeshset(c) == MeshsetHandle(Cardinality(c.sets) + 1)

create_meshset(c) ==
    LET h == NextMeshset(c) IN
    [c EXCEPT !.sets = @ \cup {h},
              !.members = (h :> {}) @@ @,
              !.children = (h :> {}) @@ @]

tag_set_data(c, tag, h, v) == [c EXCEPT ![tag] = (h :> v) @@ @]

add_entities(c, set, hs) == [c EXCEPT !.members[set] = @ \cup hs]

add_entity(c, set, h) == add_entities(c, set, {h})

add_parent_child(c, parent, child) == [c EXCEPT !.children[parent] = @ \cup {child}]

\* core.load_file(stl, set): the n facets of the file become new elements of
\* the core and members of the set.
load_file(c, n, set) ==
    LET new == {TriHandle(Cardinality(c.elems) + k) : k \in 1..n} IN
    [c EXCEPT !.elems = @ \cup new, !.members[set] = @ \cup new]

get_entities_by_handle_sets_only(c) == c.sets

\* core.get_entities_by_handle(0): every entity of the core, elements and
\* meshsets alike.
get_entities_by_handle(c) == c.sets \cup c.elems

----------------------------------------------------------------------------
\* MOABSurface

MOABSurface_both(handle, volume) ==
    [handle |-> handle, forward_volume |-> volume, reverse_volume |-> volume]

\* MOABSurface(handle=...) followed by surface.forward_volume = volume.
MOABSurface(handle, volume) ==
    [handle |-> handle, forward_volume |-> volume, reverse_volume |-> 0]

sense_data_swapped(surface) == <<surface.reverse_volume, surface.forward_volume>>

sense_data(surface) == <<surface.forward_volume, surface.reverse_volume>>

set_reverse_volume_once(surface, volume) ==
    IF surface.reverse_volume = 0
    THEN [surface EXCEPT !.reverse_volume = volume]
    ELSE surface

\* surface.reverse_volume = volume_set_handle
set_reverse_volume(surface, volume) == [surface EXCEPT !.reverse_volume = volume]

----------------------------------------------------------------------------
\* Mesh.__enter__ / Mesh.__exit__ on the gmsh toolkit

Mesh_enter ==
    /\ gmsh_initialized' = TRUE
    /\ open_contexts' = open_contexts + 1

Mesh_exit ==
    /\ gmsh_initialized' = FALSE
    /\ open_contexts' = open_contexts - 1

----------------------------------------------------------------------------
\* MOABModel.make_from_mesh

count_mismatch_one_sided(volume_tags, names) == Len(volume_tags) > Len(names)

count_mismatch(volume_tags, names) == Len(volume_tags) # Len(names)

group_name_first(names, idx) == "mat:" \o names[1]

group_name(names, idx) == "mat:" \o names[idx + 1]

is_known_never(surface_tag, known) == FALSE

is_known(surface_tag, known) == surface_tag \in DOMAIN known

\* Where the loops go after the surface at position jj of volume ii.
AfterSurface(ii, jj) ==
    IF jj < Len(mesh[ii + 1]) THEN "surface"
    ELSE IF ii + 1 < Len(mesh) THEN "volume"
    ELSE "assemble"

Advance(ii, jj) ==
    /\ pc' = AfterSurface(ii, jj)
    /\ j' = IF jj < Len(mesh[ii + 1]) THEN jj + 1 ELSE 1
    /\ i' = IF jj < Len(mesh[ii + 1]) THEN ii ELSE ii + 1

Init ==
    /\ mesh \in Meshes
    /\ material_names \in MaterialLists
    /\ make_watertight = "False"
    /\ pc = "start"
    /\ core = NewCore
    /\ known_surfaces = EmptyFn
    /\ i = 0
    /\ j = 1
    /\ volume_set_handle = 0
    /\ gmsh_initialized = FALSE
    /\ open_contexts = 0
    /\ stl_log = <<>>
    /\ written = FALSE
    /\ subprocess_runs = 0

\* Lines 265-319: a fresh core, the tag handles, the empty registry.
CreateCore ==
    /\ pc = "start"
    /\ core' = NewCore
    /\ known_surfaces' = EmptyFn
    /\ pc' = "with"
    /\ UNCHANGED <<mesh, material_names, make_watertight, i, j, volume_set_handle,
                   gmsh_initialized, open_contexts, stl_log, written, subprocess_runs>>

\* Line 320: with mesh.
EnterMesh ==
    /\ pc = "with"
    /\ Mesh_enter
    /\ pc' = "check"
    /\ UNCHANGED <<mesh, material_names, make_watertight, core, known_surfaces, i, j,
                   volume_set_handle, stl_log, written, subprocess_runs>>

\* Lines 321-326, the mismatch: ValueError leaves the with block through
\* Mesh.__exit__.
RaiseValueError ==
    /\ pc = "check"
    /\ count_mismatch(mesh, material_names)
    /\ Mesh_exit
    /\ pc' = "raised"
    /\ UNCHANGED <<mesh, material_names, make_watertight, core, known_surfaces, i, j,
                   volume_set_handle, stl_log, written, subprocess_runs>>

\* Lines 321-327, the counts agree: into the loop over the volumes.
CheckPassed ==
    /\ pc = "check"
    /\ ~count_mismatch(mesh, material_names)
    /\ pc' = IF Len(mesh) > 0 THEN "volume" ELSE "assemble"
    /\ i' = 0
    /\ UNCHANGED <<mesh, material_names, make_watertight, core, known_surfaces, j,
                   volume_set_handle, gmsh_initialized, open_contexts, stl_log,
                   written, subprocess_runs>>

\* Lines 328-349: the volume meshset, its group meshset, the adjacency query.
CreateVolume ==
    /\ pc = "volume"
    /\ LET v  == NextMeshset(core)
           c1 == create_meshset(core)
           c2 == tag_set_data(c1, "global_id", v, i)
           c3 == tag_set_data(c2, "geom_dimension", v, 3)
           c4 == tag_set_data(c3, "category", v, "Volume")
           g  == NextMeshset(c4)
           c5 == create_meshset(c4)
           c6 == tag_set_data(c5, "category", g, "Group")
           c7 == tag_set_data(c6, "name", g, group_name(material_names, i))
           c8 == tag_set_data(c7, "geom_dimension", g, 4)
           c9 == add_entity(c8, g, v)
       IN /\ core' = c9
          /\ volume_set_handle' = v
    /\ Advance(i, 0)
    /\ UNCHANGED <<mesh, material_names, make_watertight, known_surfaces,
                   gmsh_initialized, open_contexts, stl_log, written, subprocess_runs>>

\* Lines 351-378 and 391: a surface tag not in known_surfaces.
FirstEncounter ==
    /\ pc = "surface"
    /\ LET surface_tag == mesh[i + 1][j] IN
       /\ ~is_known(surface_tag, known_surfaces)
       /\ \E nfacets \in 1..MaxFacets :
            LET s  == NextMeshset(core)
                c1 == create_meshset(core)
                surface == MOABSurface(s, volume_set_handle)
                c2 == tag_set_data(c1, "global_id", surface.handle, surface_tag)
                c3 == tag_set_data(c2, "geom_dimension", surface.handle, 2)
                c4 == tag_set_data(c3, "category", surface.handle, "Surface")
                c5 == tag_set_data(c4, "surf_sense", surface.handle, sense_data(surface))
                c6 == load_file(c5, nfacets, s)
                c7 == add_parent_child(c6, volume_set_handle, surface.handle)
            IN /\ known_surfaces' = (surface_tag :> surface) @@ known_surfaces
               /\ core' = c7
               /\ stl_log' = Append(stl_log, <<surface_tag, s>>)
    /\ Advance(i, j)
    /\ UNCHANGED <<mesh, material_names, make_watertight, volume_set_handle,
                   gmsh_initialized, open_contexts, written, subprocess_runs>>

\* Lines 380-391: a surface tag already in known_surfaces.
LaterEncounter ==
    /\ pc = "surface"
    /\ LET surface_tag == mesh[i + 1][j] IN
       /\ is_known(surface_tag, known_surfaces)
       /\ LET surface == set_reverse_volume(known_surfaces[surface_tag], volume_set_handle)
              c1 == tag_set_data(core, "surf_sense", surface.handle, sense_data(surface))
              c2 == add_parent_child(c1, volume_set_handle, surface.handle)
          IN /\ known_surfaces' = (surface_tag :> surface) @@ known_surfaces
             /\ core' = c2
    /\ Advance(i, j)
    /\ UNCHANGED <<mesh, material_names, make_watertight, volume_set_handle,
                   gmsh_initialized, open_contexts, stl_log, written, subprocess_runs>>

\* Lines 393-400: the file set.
AssembleFileSet ==
    /\ pc = "assemble"
    /\ LET all_entities == get_entities_by_handle(core)
           file_set == NextMeshset(core)
           c1 == create_meshset(core)
           c2 == tag_set_data(c1, "faceting_tol", file_set, "1e-3")
           c3 == add_entities(c2, file_set, all_entities)
       IN core' = c3
    /\ pc' = "return"
    /\ UNCHANGED <<mesh, material_names, make_watertight, known_surfaces, i, j,
                   volume_set_handle, gmsh_initialized, open_contexts, stl_log,
                   written, subprocess_runs>>

\* Line 402: return cls(core), leaving the with block through Mesh.__exit__.
Return ==
    /\ pc = "return"
    /\ Mesh_exit
    /\ pc' = "returned"
    /\ UNCHANGED <<mesh, material_names, make_watertight, core, known_surfaces, i, j,
                   volume_set_handle, stl_log, written, subprocess_runs>>

Next ==
    \/ CreateCore
    \/ EnterMesh
    \/ RaiseValueError
    \/ CheckPassed
    \/ CreateVolume
    \/ FirstEncounter
    \/ LaterEncounter
    \/ AssembleFileSet
    \/ Return

Spec == Init /\ [][Next]_vars

----------------------------------------------------------------------------
\* The caller's side: Mesh contexts opened around the call, Mesh.write,
\* Mesh.render, MOABModel.write and MOABModel._make_watertight.  The caller
\* runs only while make_from_mesh is not executing.

CallerRuns == pc \in {"start", "returned", "raised"}

\* with mesh: entered by the caller (lines 105-114).
MeshEnter ==
    /\ CallerRuns
    /\ open_contexts < MaxOpenContexts
    /\ Mesh_enter
    /\ UNCHANGED <<mesh, material_names, make_watertight, pc, core, known_surfaces, i, j,
                   volume_set_handle, stl_log, written, subprocess_runs>>

\* The caller's with block ends (lines 116-117).
MeshExit ==
    /\ CallerRuns
    /\ open_contexts > 0
    /\ Mesh_exit
    /\ UNCHANGED <<mesh, material_names, make_watertight, pc, core, known_surfaces, i, j,
                   volume_set_handle, stl_log, written, subprocess_runs>>

\* Mesh.write (lines 122-129): with self: gmsh.write(filename).
MeshWrite ==
    /\ CallerRuns
    /\ gmsh_initialized' = FALSE
    /\ UNCHANGED <<mesh, material_names, make_watertight, pc, core, known_surfaces, i, j,
                   volume_set_handle, open_contexts, stl_log, written, subprocess_runs>>

\* Mesh.render (lines 181-200): with self: options, gmsh.write(output_filename).
MeshRender ==
    /\ CallerRuns
    /\ gmsh_initialized' = FALSE
    /\ UNCHANGED <<mesh, material_names, make_watertight, pc, core, known_surfaces, i, j,
                   volume_set_handle, open_contexts, stl_log, written, subprocess_runs>>

\* MOABModel.write (lines 231-232) on the model make_from_mesh returned.
ModelWrite ==
    /\ pc = "returned"
    /\ written' = TRUE
    /\ UNCHANGED <<mesh, material_names, make_watertight, pc, core, known_surfaces, i, j,
                   volume_set_handle, gmsh_initialized, open_contexts, stl_log,
                   subprocess_runs>>

\* MOABModel._make_watertight (lines 234-243) called on the written file.
MakeWatertight ==
    /\ pc = "returned"
    /\ written
    /\ subprocess_runs < MaxSubprocessRuns
    /\ subprocess_runs' = subprocess_runs + 1
    /\ UNCHANGED <<mesh, material_names, make_watertight, pc, core, known_surfaces, i, j,
                   volume_set_handle, gmsh_initialized, open_contexts, stl_log, written>>

InitSession ==
    /\ mesh \in Meshes
    /\ material_names \in MaterialLists
    /\ make_watertight \in MakeWatertightArgs
    /\ pc = "start"
    /\ core = NewCore
    /\ known_surfaces = EmptyFn
    /\ i = 0
    /\ j = 1
    /\ volume_set_handle = 0
    /\ gmsh_initialized = FALSE
    /\ open_contexts = 0
    /\ stl_log = <<>>
    /\ written = FALSE
    /\ subprocess_runs = 0

NextSession ==
    \/ Next
    \/ MeshEnter
    \/ MeshExit
    \/ MeshWrite
    \/ MeshRender
    \/ ModelWrite
    \/ MakeWatertight

SpecSession == InitSession /\ [][NextSession]_vars

----------------------------------------------------------------------------
\* Reading the result

Done == pc = "returned"

\* The entities whose tag `tag` holds v.
Tagged(tag, v) == {h \in DOMAIN core[tag] : core[tag][h] = v}

VolumeEntities == Tagged("category", "Volume")
GroupEntities == Tagged("category", "Group")
SurfaceEntities == Tagged("category", "Surface")
FileSets == DOMAIN core.faceting_tol

\* The volume entity of the k-th volume of the mesh (global_id k - 1).
Volume(k) ==
    CHOOSE h \in DOMAIN core.category :
        core.category[h] = "Volume" /\ core.global_id[h] = k - 1

\* The surface entities that carry the gmsh surface tag t.
SurfaceEntitiesOf(t) ==
    {h \in DOMAIN core.category :
        core.category[h] = "Surface" /\ core.global_id[h] = t}

SurfaceTags == 1..MaxSurfaceTag

\* The volumes (positions in the enumeration) whose adjacency list holds t.
AdjacentVolumes(t) ==
    {k \in 1..Len(mesh) : \E p \in 1..Len(mesh[k]) : mesh[k][p] = t}

\* The loop body has completed for the surface at position p of volume k.
Processed(k, p) == (k - 1 < i) \/ (k - 1 = i /\ pc = "surface" /\ p < j)

VisitedBy(t) ==
    {k \in 1..Len(mesh) : \E p \in 1..Len(mesh[k]) : mesh[k][p] = t /\ Processed(k, p)}

\* The surface tag t has been encountered.
Visited(t) ==
    \E k \in 1..Len(mesh) : \E p \in 1..Len(mesh[k]) : mesh[k][p] = t /\ Processed(k, p)

SeenTags == {t \in SurfaceTags : Visited(t)}

Min(S) == CHOOSE x \in S : \A y \in S : x <= y
Max(S) == CHOOSE x \in S : \A y \in S : x >= y

Extractions(t) == {n \in 1..Len(stl_log) : stl_log[n][1] = t}

----------------------------------------------------------------------------
\* C1: when make_from_mesh has completed, a surface adjacent to exactly two
\* volumes has a surf_sense pair with both slots non-zero, equal to (entity
\* of the volume enumerated first, entity of the volume enumerated second).
C1_InteriorSense ==
    Done =>
        \A t \in SurfaceTags :
            Cardinality(AdjacentVolumes(t)) = 2 =>
                /\ SurfaceEntitiesOf(t) # {}
                /\ \A h \in SurfaceEntitiesOf(t) :
                    /\ core.surf_sense[h] =
                         <<Volume(Min(AdjacentVolumes(t))), Volume(Max(AdjacentVolumes(t)))>>
                    /\ core.surf_sense[h][1] # 0
                    /\ core.surf_sense[h][2] # 0

C1_Witness ==
    /\ Done
    /\ \E t \in SurfaceTags : Cardinality(AdjacentVolumes(t)) = 2

\* C2: when make_from_mesh has completed, a surface adjacent to exactly one
\* volume has surf_sense (that volume's entity, 0); a single-volume mesh has
\* no surface with both slots set.
C2_BoundarySense ==
    Done =>
        /\ \A t \in SurfaceTags :
            Cardinality(AdjacentVolumes(t)) = 1 =>
                /\ SurfaceEntitiesOf(t) # {}
                /\ \A h \in SurfaceEntitiesOf(t) :
                    core.surf_sense[h] = <<Volume(Min(AdjacentVolumes(t))), 0>>
        /\ Len(mesh) = 1 =>
            /\ Cardinality(SurfaceEntities) = Len(mesh[1])
            /\ \A h \in SurfaceEntities : core.surf_sense[h][2] = 0

C2_Witness ==
    /\ Done
    /\ Len(mesh) = 1
    /\ Len(mesh[1]) = 2

\* C3: at every point of the traversal the registry holds exactly one surface
\* entity per distinct surface tag seen so far, and the core holds no other
\* surface entity; on completion the surface entities are as many as the
\* distinct tags of all adjacency lists.
C3_OneEntityPerSurface ==
    /\ DOMAIN known_surfaces = SeenTags
    /\ \A t \in DOMAIN known_surfaces :
        SurfaceEntitiesOf(t) = {known_surfaces[t].handle}
    /\ Cardinality(SurfaceEntities) = Cardinality(DOMAIN known_surfaces)
    /\ Done => Cardinality(SurfaceEntities) =
                 Cardinality({t \in SurfaceTags : AdjacentVolumes(t) # {}})

C3_Witness ==
    /\ pc = "assemble"
    /\ Cardinality(SurfaceEntities) = 2
    /\ TotalLen(mesh) = 3

\* C4: when the number of material names differs from the number of volumes
\* the call never gets past the check, ends by raising, and the core holds
\* no entity.
C4_MismatchFails ==
    Len(material_names) # Len(mesh) =>
        /\ pc \in {"start", "with", "check", "raised"}
        /\ core.sets = {}
        /\ core.elems = {}

C4_Witness ==
    /\ pc = "raised"
    /\ Len(material_names) > Len(mesh)
    /\ Len(mesh) > 0
    /\ TotalLen(mesh) > 0

\* C5, as stated: the file set's members are exactly the volume, group and
\* surface entities.
C5_MembersAreOnlySets ==
    pc \in {"return", "returned"} =>
        \A f \in FileSets :
            core.members[f] = VolumeEntities \cup GroupEntities \cup SurfaceEntities

\* C5, amended: the file set's members are every entity the core held when
\* the file set was created: the volume, group and surface entities and the
\* facet elements loaded into the surfaces; the file set is not a member.
C5_MembersAreAllEntities ==
    pc \in {"return", "returned"} =>
        /\ Cardinality(FileSets) = 1
        /\ \A f \in FileSets :
            /\ core.members[f] =
                 VolumeEntities \cup GroupEntities \cup SurfaceEntities \cup core.elems
            /\ f \notin core.members[f]
            /\ core.sets = VolumeEntities \cup GroupEntities \cup SurfaceEntities \cup {f}

C5_Witness ==
    /\ Done
    /\ core.elems # {}
    /\ Len(mesh) = 2

\* C6: a surface's facets are extracted and loaded exactly once, as soon as
\* it has been encountered, into the entity the registry holds for it; no
\* later encounter extracts or loads again.
C6_ExtractOnce ==
    \A t \in SurfaceTags :
        /\ Cardinality(Extractions(t)) = (IF Visited(t) THEN 1 ELSE 0)
        /\ \A n \in Extractions(t) :
            /\ stl_log[n][2] = known_surfaces[t].handle
            /\ stl_log[n][2] \in SurfaceEntities
            /\ core.members[stl_log[n][2]] # {}

C6_Witness ==
    /\ Done
    /\ Len(stl_log) = 1
    /\ TotalLen(mesh) = 2
    /\ Len(mesh) = 2

\* C7: when make_from_mesh has completed on n volumes there are n groups;
\* the group of the volume at index i is named "mat:" + material_names[i]
\* and holds that volume alone; no volume is in two groups.
C7_Groups ==
    Done =>
        /\ Cardinality(GroupEntities) = Len(mesh)
        /\ Cardinality(VolumeEntities) = Len(mesh)
        /\ \A k \in 1..Len(mesh) :
            LET gs == {g \in GroupEntities : Volume(k) \in core.members[g]} IN
            /\ Cardinality(gs) = 1
            /\ \A g \in gs :
                /\ core.members[g] = {Volume(k)}
                /\ core.name[g] = "mat:" \o material_names[k]

C7_Witness ==
    /\ Done
    /\ Len(mesh) >= 2
    /\ material_names[1] # material_names[2]

\* C8, as stated: when the repair is requested, make_from_mesh returns with
\* the database written to the output file and the repair run exactly once
\* on it; when it is not requested, the call has run no repair.
C8_RepairRunsWhenRequested ==
    Done =>
        IF make_watertight # "False"
        THEN written /\ subprocess_runs = 1
        ELSE ~written => subprocess_runs = 0

\* C9: a surface in the adjacency lists of three or more volumes keeps one
\* entity; its forward_volume stays the first volume that visited it and its
\* reverse_volume (and the second slot of surf_sense) is the volume that
\* visited it last.
C9_ThirdEncounterOverwrites ==
    \A t \in SurfaceTags :
        (Cardinality(AdjacentVolumes(t)) >= 3 /\ Visited(t)) =>
            LET first == Volume(Min(VisitedBy(t)))
                last == IF Cardinality(VisitedBy(t)) >= 2
                        THEN Volume(Max(VisitedBy(t))) ELSE 0
            IN /\ Cardinality(SurfaceEntitiesOf(t)) = 1
               /\ known_surfaces[t].forward_volume = first
               /\ known_surfaces[t].reverse_volume = last
               /\ core.surf_sense[known_surfaces[t].handle] = <<first, last>>
               /\ pc # "raised"

C9_Witness ==
    /\ Done
    /\ \E t \in SurfaceTags : Cardinality(AdjacentVolumes(t)) >= 3

\* C10, as stated: gmsh is initialized whenever a Mesh context has been
\* entered and not yet exited.
C10_InitializedWhileOpen == open_contexts > 0 => gmsh_initialized

====
